---- MODULE Spec2Model ----
(***************************************************************************)
(* A model of lib/node/fullnode.js (bcash FullNode): the chain event       *)
(* handlers that reconcile the mempool, the unified coin and transaction   *)
(* queries over mempool and chain, and the transaction submission path.    *)
(*                                                                         *)
(* The node runs on one JavaScript event loop.  An async function runs     *)
(* without interruption up to an await, where it is suspended; what runs   *)
(* between two awaits is one action here.                                  *)
(***************************************************************************)
EXTENDS Integers, Sequences, FiniteSets, TLC

\* Bounds of the model.
MaxEvents == 3      \* chain events emitted in one behaviour
NTx == 3            \* transactions created in one behaviour
NOut == 2           \* outputs of a transaction
MaxRecords == 2     \* token records of a transaction
MaxRollbacks == 3   \* calls of rollbackSlpIndexer and startSync in one behaviour
MaxHeight == 1      \* largest height a rollback is asked for
NGenesis == 2       \* coins the confirmed chain starts with
NAddr == 2          \* addresses
MaxLimit == 2       \* largest options.limit of a getMetaByAddress call
MaxAfter == 1       \* transactions an options.after may name
MaxCalls == 2       \* calls of sendTX and relay in one behaviour
MaxScore == 2       \* largest score of a verification error

VARIABLES
  handlers,      \* chain event handlers in emission order: [kind, pc, result]
  mempoolCalls,  \* mempool updates in the order they began: [id, method]
  emitted,       \* node-level events in the order emitted: [name, id]
  rejected,      \* ids of the handlers whose promise rejected
  errors,        \* the node's error channel: [by, id, err]
  spends,        \* spends[t]: the outpoint transaction t spends, 0 before t exists
  pool,          \* the mempool's transactions, in the order admitted
  chain,         \* the confirmed transactions, in the order connected
  connecting,    \* connected transactions whose mempool._addBlock has not finished
  query,         \* the query in progress, or the last one finished
  txindex,       \* whether the transaction index exists (index-tx)
  addrindex,     \* whether the address index exists (index-address)
  txHeight,      \* confirmed transactions the transaction index has indexed
  addrHeight,    \* confirmed transactions the address index has indexed
  selfish,       \* pool.options.selfish
  calls,         \* the calls of sendTX and relay: [op, tx, relayUnverified, pc, ...]
  broadcasts,    \* the broadcasts issued: [tx, by, state]
  slpindex,      \* whether the token index exists (index-slp)
  memSlp,        \* the mempool's token ledger: transaction hash -> records
  dbSlp,         \* the token index's records: transaction hash -> records
  tokenAt,       \* where the token's descriptive record is held
  syncing,       \* slpindex.syncing
  rollbacks,     \* the calls of rollbackSlpIndexer: [height, pc]
  slpLog         \* what the token index was asked to do, in order

vars == <<handlers, mempoolCalls, emitted, rejected, errors,
          spends, pool, chain, connecting, query,
          txindex, addrindex, txHeight, addrHeight,
          selfish, calls, broadcasts,
          slpindex, memSlp, dbSlp, tokenAt, syncing, rollbacks, slpLog>>

tokenVars == <<slpindex, memSlp, dbSlp, tokenAt>>

rollbackVars == <<syncing, rollbacks, slpLog>>

submitVars == <<selfish, calls, broadcasts>>

indexVars == <<txindex, addrindex, txHeight, addrHeight>>

ledgerVars == <<spends, pool, chain, connecting>>

reconcilerVars == <<handlers, mempoolCalls, emitted, rejected>>

(***************************************************************************)
(* Helpers                                                                 *)
(***************************************************************************)
CountWhere(s, P(_)) == Cardinality({i \in DOMAIN s : P(s[i])})

Reverse(s) == [i \in DOMAIN s |-> s[Len(s) + 1 - i]]

IndexOf(s, x) == CHOOSE i \in DOMAIN s : s[i] = x

Take(s, n) == SubSeq(s, 1, IF n < Len(s) THEN n ELSE Len(s))

(***************************************************************************)
(* Errors.  An error value carries the two fields sendTX looks at.         *)
(***************************************************************************)
NoScore == 0 - 1

Fault == [type |-> "Error", score |-> NoScore]

\* Node.error(err): logs the error and emits it on the node's 'error' event.
error(ch, by, id, err) == Append(ch, [by |-> by, id |-> id, err |-> err])

(***************************************************************************)
(* Reconciler: the four chain event handlers of FullNode.init.             *)
(***************************************************************************)
\* The mempool method each handler awaits.
MempoolUpdate(kind) ==
  CASE kind = "connect"    -> "_addBlock"
    [] kind = "disconnect" -> "_removeBlock"
    [] kind = "reorganize" -> "_handleReorg"
    [] kind = "reset"      -> "_reset"

\* The node-level events each handler emits after its await, in order.
NodeEvents(kind) ==
  CASE kind = "connect"    -> <<"block", "connect">>
    [] kind = "disconnect" -> <<"disconnect">>
    [] kind = "reorganize" -> <<"reorganize">>
    [] kind = "reset"      -> <<"reset">>

Updating == {i \in DOMAIN handlers : handlers[i].pc = "updating"}

\* The chain emits its events with a synchronous emit: the listener is called,
\* runs up to its first await and returns a promise that the emitter drops, so
\* the chain does not wait for a handler before it emits again.
EmitterAwaitsHandlers == FALSE

ChainCanEmit ==
  /\ Len(handlers) < MaxEvents
  /\ EmitterAwaitsHandlers => Updating = {}

\* A handler that emits its node-level events before it awaits the update.
StartHandler_EmitFirst(kind) ==
  /\ ChainCanEmit
  /\ handlers' = Append(handlers,
       [kind |-> kind, pc |-> "updating", result |-> "pending"])
  /\ mempoolCalls' = Append(mempoolCalls,
       [id |-> Len(handlers) + 1, method |-> MempoolUpdate(kind)])
  /\ emitted' = emitted \o [n \in 1..Len(NodeEvents(kind)) |->
                             [name |-> NodeEvents(kind)[n], id |-> Len(handlers) + 1]]
  /\ UNCHANGED <<rejected, errors>>

\* A handler from its call to its await: the mempool update is begun and the
\* handler is suspended on it.
StartHandler(kind) ==
  /\ ChainCanEmit
  /\ handlers' = Append(handlers,
       [kind |-> kind, pc |-> "updating", result |-> "pending"])
  /\ mempoolCalls' = Append(mempoolCalls,
       [id |-> Len(handlers) + 1, method |-> MempoolUpdate(kind)])
  /\ UNCHANGED <<emitted, rejected, errors>>

OnConnect == StartHandler("connect")

OnDisconnect == StartHandler("disconnect")

OnReorganize == StartHandler("reorganize")

OnReset == StartHandler("reset")

EmitAll(log, kind, id) ==
  log \o [n \in 1..Len(NodeEvents(kind)) |-> [name |-> NodeEvents(kind)[n], id |-> id]]

\* A handler without its try/catch: a failed update rejects the handler's
\* promise, and nothing after the await runs.
HandlerResume_NoCatch(id, ok) ==
  /\ id \in Updating
  /\ handlers' = [handlers EXCEPT ![id].pc = "done",
                                  ![id].result = IF ok THEN "ok" ELSE "fail"]
  /\ IF ok
       THEN /\ emitted' = EmitAll(emitted, handlers[id].kind, id)
            /\ UNCHANGED rejected
       ELSE /\ rejected' = rejected \cup {id}
            /\ UNCHANGED emitted
  /\ UNCHANGED <<mempoolCalls, errors>>

\* A handler from the settling of the mempool update to its end: the catch
\* block reports a failure, then the node-level events are emitted.
HandlerResume(id, ok) ==
  /\ id \in Updating
  /\ handlers' = [handlers EXCEPT ![id].pc = "done",
                                  ![id].result = IF ok THEN "ok" ELSE "fail"]
  /\ errors' = IF ok THEN errors
               ELSE error(errors, handlers[id].kind, id, Fault)
  /\ emitted' = EmitAll(emitted, handlers[id].kind, id)
  /\ UNCHANGED <<mempoolCalls, rejected>>

otherThanReconciler == <<ledgerVars, query, indexVars, submitVars, tokenVars, rollbackVars>>

InitReconciler ==
  /\ handlers = <<>>
  /\ mempoolCalls = <<>>
  /\ emitted = <<>>
  /\ rejected = {}

NextReconciler ==
  \/ OnConnect /\ UNCHANGED otherThanReconciler
  \/ OnDisconnect /\ UNCHANGED otherThanReconciler
  \/ OnReorganize /\ UNCHANGED otherThanReconciler
  \/ OnReset /\ UNCHANGED otherThanReconciler
  \/ \E id \in 1..MaxEvents, ok \in BOOLEAN :
       HandlerResume(id, ok) /\ UNCHANGED otherThanReconciler

(***************************************************************************)
(* The ledger the queries read: the mempool and the confirmed chain.       *)
(* Transaction t spends one outpoint, spends[t], and creates one, Out(t).  *)
(***************************************************************************)
Outpoints == 1..(NGenesis + NTx)

Out(t) == NGenesis + t

\* The address an outpoint pays to.
AddrOf(o) == (o % NAddr) + 1

Range(s) == {s[i] : i \in DOMAIN s}

\* The elements of a set of numbers in ascending order.
RECURSIVE Sorted(_)
Sorted(S) ==
  IF S = {} THEN <<>>
  ELSE LET m == CHOOSE x \in S : \A y \in S : x <= y
       IN <<m>> \o Sorted(S \ {m})

Null == [op |-> 0, src |-> "null"]

PoolCoin(o) == [op |-> o, src |-> "mempool"]

ChainCoin(o) == [op |-> o, src |-> "chain"]

\* Mempool: the outpoints its transactions spend, and its own unspent outputs.
PoolSpent == {spends[t] : t \in Range(pool)}

PoolUnspent == {Out(t) : t \in Range(pool)} \ PoolSpent

MempoolGetCoin(o) == IF o \in PoolUnspent THEN PoolCoin(o) ELSE Null

MempoolIsSpent(o) == o \in PoolSpent

\* The mempool transaction that spends o, 0 (null) when there is none.
MempoolGetSpentTX(o) ==
  IF o \in PoolSpent THEN CHOOSE t \in Range(pool) : spends[t] = o ELSE 0

MempoolGetCoinsByAddress(addr) ==
  LET own == SelectSeq(pool, LAMBDA t : Out(t) \in PoolUnspent /\ AddrOf(Out(t)) = addr)
  IN [i \in DOMAIN own |-> PoolCoin(Out(own[i]))]

\* Chain: the unspent outputs of the confirmed transactions.
ChainUnspent ==
  ((1..NGenesis) \cup {Out(t) : t \in Range(chain)}) \ {spends[t] : t \in Range(chain)}

ChainGetCoin(o) == IF o \in ChainUnspent THEN ChainCoin(o) ELSE Null

ChainGetCoinsByAddress(addr) ==
  LET own == Sorted({o \in ChainUnspent : AddrOf(o) = addr})
  IN [i \in DOMAIN own |-> ChainCoin(own[i])]

Created == {t \in 1..NTx : spends[t] # 0}

\* The mempool admits a new transaction spending an outpoint that is unspent
\* in its view of the chain and of itself.
AdmitTX(o) ==
  LET t == Cardinality(Created) + 1 IN
  /\ t <= NTx
  /\ o \in (ChainUnspent \cup PoolUnspent) \ PoolSpent
  /\ spends' = [spends EXCEPT ![t] = o]
  /\ pool' = Append(pool, t)
  /\ UNCHANGED <<chain, connecting>>

\* The chain connects a block confirming a mempool transaction; the connect
\* handler begins mempool._addBlock, which has not finished yet.
ConnectTX(t) ==
  /\ t \in Range(pool) \ Range(chain)
  /\ spends[t] \in ChainUnspent
  /\ chain' = Append(chain, t)
  /\ connecting' = connecting \cup {t}
  /\ UNCHANGED <<spends, pool>>

\* mempool._addBlock finishes: the confirmed transaction leaves the mempool.
AddBlockDone(t) ==
  /\ t \in connecting
  /\ connecting' = connecting \ {t}
  /\ pool' = SelectSeq(pool, LAMBDA u : u # t)
  /\ UNCHANGED <<spends, chain>>

InitLedger ==
  /\ spends = [t \in 1..NTx |-> 0]
  /\ pool = <<>>
  /\ chain = <<>>
  /\ connecting = {}

otherThanLedger ==
  <<reconcilerVars, errors, query, indexVars, submitVars, tokenVars, rollbackVars>>

otherThanQuery == <<reconcilerVars, errors, indexVars, submitVars, tokenVars, rollbackVars>>

otherThanIndexes ==
  <<reconcilerVars, errors, query, ledgerVars, submitVars, tokenVars, rollbackVars>>

(***************************************************************************)
(* The token overlay: getSlpCoinRecords, getSlpTokenRecord and what        *)
(* addSlpInfoToCoin and addSlpInfoToTx attach.  A call of one of the two   *)
(* is suspended on getSlpCoinRecords (query.pc = "slpRecords") and, for a  *)
(* transaction, on getSlpTokenRecord (query.pc = "slpToken").              *)
(***************************************************************************)
\* coin.hash: the transaction that created the outpoint; 0 is no hash.
HashOfCoin(o) == IF o > NGenesis THEN o - NGenesis ELSE NTx + o

\* coin.index
IndexOfCoin(o) == o % NOut

Hashes == 1..(NTx + NGenesis)

\* A token identifier is a byte string; a record of an unsupported token
\* type has none.
NoTokenId == <<>>

TokenId == <<1, 2>>

\* A token record of a transaction: the output it is about and the token.
Records == [vout : 0..(NOut - 1), tokenId : {NoTokenId, TokenId}]

\* The record lists of a transaction: at most one record for an output.
RecordLists ==
  {r \in UNION {[1..n -> Records] : n \in 0..MaxRecords} :
     \A i, j \in DOMAIN r : i # j => r[i].vout # r[j].vout}

\* What Array.find returns when no element matches.
Undefined == [vout |-> 0 - 1, tokenId |-> NoTokenId]

\* records.find(r => i == r.vout)
Find(records, i) ==
  IF \E n \in DOMAIN records : records[n].vout = i
    THEN records[CHOOSE n \in DOMAIN records :
                   /\ records[n].vout = i
                   /\ \A m \in DOMAIN records : records[m].vout = i => n <= m]
    ELSE Undefined

\* The token's descriptive record is filed under the token identifier with
\* its bytes reversed.
TokenKey == Reverse(TokenId)

TokenRecord(key) == [tokenId |-> key, decimals |-> 0]

NoToken == [tokenId |-> NoTokenId, decimals |-> 0 - 1]

\* mempool.getSlp(hash) is truthy.
MempoolHasSlp(hash) == hash \in DOMAIN memSlp

\* slpindex.getSlpCoinRecords(hash), [] for a hash it has no records of.
SlpIndexGetSlpCoinRecords(hash) == IF hash \in DOMAIN dbSlp THEN dbSlp[hash] ELSE <<>>

\* mempool.getSlp(key) holds a record with decimals: the token's record.
MempoolHasToken(key) == tokenAt = "mempool" /\ key = TokenKey

\* slpindex.getTokenRecord(key)
SlpIndexGetTokenRecord(key) ==
  IF tokenAt = "slpindex" /\ key = TokenKey THEN TokenRecord(key) ELSE NoToken

\* getSlpCoinRecords up to its return (io false: the records are those of the
\* mempool, or [] without a token index) or to its await of the token index.
GetSlpCoinRecords(hash) ==
  IF slpindex
    THEN IF MempoolHasSlp(hash)
           THEN [io |-> FALSE, recs |-> memSlp[hash]]
           ELSE [io |-> TRUE, recs |-> <<>>]
    ELSE [io |-> FALSE, recs |-> <<>>]

\* getSlpTokenRecord up to its return or to its await of the token index.
GetSlpTokenRecord(key) ==
  IF slpindex
    THEN IF MempoolHasToken(key)
           THEN [io |-> FALSE, tok |-> TokenRecord(key)]
           ELSE [io |-> TRUE, tok |-> NoToken]
    ELSE [io |-> FALSE, tok |-> NoToken]

\* addSlpInfoToCoin that sets coin.slp whatever the number of records.
AddSlpInfoToCoin_NoLengthTest(coin, records) ==
  coin @@ [slp |-> Find(records, IndexOfCoin(coin.op))]

\* addSlpInfoToCoin after getSlpCoinRecords: coin.slp is set when there are
\* records, to the one for the coin's index or to undefined.
AddSlpInfoToCoin(coin, records) ==
  IF Len(records) > 0
    THEN coin @@ [slp |-> Find(records, IndexOfCoin(coin.op))]
    ELSE coin

\* addSlpInfoToTx after getSlpCoinRecords: whether the transaction is
\* decorated: there are records and the first has a token identifier.
Supported(records) == Len(records) > 0 /\ records[1].tokenId # NoTokenId

\* addSlpInfoToTx after getSlpTokenRecord: tx.slpToken is set, and
\* tx.outputs[i].slp for each output that has a record.
AddSlpInfoToTx(tx, records, tokenRecord) ==
  tx @@ [slpToken |-> tokenRecord,
         slp |-> [i \in {v \in 0..(NOut - 1) : Find(records, v) # Undefined}
                    |-> Find(records, i)]]

\* this.slpindex && slp
Decorate(slp) == slpindex /\ slp

\* The part of a query's state that follows its overlay calls.
NoOverlay(slp) ==
  [slp |-> slp, kind |-> "none", ent |-> Null, hash |-> 0, recs |-> <<>>,
   tok |-> NoToken, io |-> FALSE, todo |-> <<>>, stage |-> "none", lookups |-> 0]

\* addSlpInfoToCoin(ent) or addSlpInfoToTx(ent) from its call to its await of
\* getSlpCoinRecords(hash).
StartOverlay(q, kind, ent, hash) ==
  [q EXCEPT !.pc = "slpRecords", !.kind = kind, !.ent = ent, !.hash = hash,
            !.io = GetSlpCoinRecords(hash).io,
            !.recs = GetSlpCoinRecords(hash).recs,
            !.lookups = @ + 1]

(***************************************************************************)
(* Queries.  One query is followed at a time; query.pc is where it is      *)
(* suspended, "done" once it has returned.                                 *)
(***************************************************************************)
NoQuery == [op |-> "none", pc |-> "done"]

QueryIdle == query.pc = "done"

\* getCoin without its isSpent check: an outpoint the mempool has spent falls
\* through to the chain.
GetCoinSync_NoSpentCheck(o) ==
  IF MempoolGetCoin(o) # Null
    THEN [pc |-> "done", result |-> MempoolGetCoin(o)]
    ELSE [pc |-> "chain", result |-> Null]

\* getCoin up to its await: the mempool's coin, or null for an outpoint the
\* mempool has spent, or a suspension on chain.getCoin.
GetCoinSync(o) ==
  IF MempoolGetCoin(o) # Null
    THEN [pc |-> "done", result |-> MempoolGetCoin(o)]
    ELSE IF MempoolIsSpent(o)
      THEN [pc |-> "done", result |-> Null]
      ELSE [pc |-> "chain", result |-> Null]

\* getCoin returns the coin it found, through addSlpInfoToCoin when the
\* token index exists and slp is set.
CoinFound(q, coin) ==
  IF coin # Null /\ Decorate(q.slp)
    THEN StartOverlay(q, "coin", coin, HashOfCoin(coin.op))
    ELSE [q EXCEPT !.pc = "done", !.result = coin]

GetCoinCall(o, slp) ==
  LET q == [op |-> "getCoin", o |-> o, pc |-> "chain", result |-> Null,
            held |-> o \in PoolUnspent, spent |-> o \in PoolSpent,
            listed |-> o \in ChainUnspent,
            asked |-> FALSE, answer |-> Null] @@ NoOverlay(slp)
  IN
  /\ QueryIdle
  /\ query' = IF GetCoinSync(o).pc = "done"
                THEN CoinFound(q, GetCoinSync(o).result)
                ELSE q
  /\ UNCHANGED ledgerVars

\* chain.getCoin settles and getCoin returns the chain's answer.
GetCoinReturn ==
  /\ query.op = "getCoin"
  /\ query.pc = "chain"
  /\ query' = CoinFound([query EXCEPT !.asked = TRUE,
                                      !.answer = ChainGetCoin(query.o)],
                        ChainGetCoin(query.o))
  /\ UNCHANGED ledgerVars

\* The second loop of getCoinsByAddress without its getSpentTX test.
KeepUnspent_NoFilter(blockCoins) == blockCoins

\* The second loop of getCoinsByAddress: the chain's coins that no mempool
\* transaction spends, in the chain's order.
KeepUnspent(blockCoins) ==
  SelectSeq(blockCoins, LAMBDA c : MempoolGetSpentTX(c.op) = 0)

\* The first loop of getCoinsByAddress with the overlay: the next of the
\* mempool's coins goes through addSlpInfoToCoin; after the last the call is
\* suspended on chain.getCoinsByAddress.
NextMemCoin(q) ==
  IF q.todo = <<>>
    THEN [q EXCEPT !.pc = "chain", !.stage = "none"]
    ELSE StartOverlay([q EXCEPT !.todo = Tail(q.todo)],
                      "coin", Head(q.todo), HashOfCoin(Head(q.todo).op))

\* The second loop with the overlay: the next of the chain's coins that no
\* mempool transaction spends goes through addSlpInfoToCoin; after the last
\* the list is returned.
NextBlockCoin(q) ==
  LET unspent == {i \in DOMAIN q.todo : MempoolGetSpentTX(q.todo[i].op) = 0} IN
  IF unspent = {}
    THEN [q EXCEPT !.pc = "done", !.stage = "none", !.todo = <<>>]
    ELSE LET n == CHOOSE i \in unspent : \A m \in unspent : i <= m
         IN StartOverlay([q EXCEPT !.todo = SubSeq(q.todo, n + 1, Len(q.todo))],
                         "coin", q.todo[n], HashOfCoin(q.todo[n].op))

\* A coin comes back from addSlpInfoToCoin: it is pushed and the loop goes on.
CoinDecorated(q, coin) ==
  IF q.stage = "mem"
    THEN NextMemCoin([q EXCEPT !.result = Append(q.result, coin)])
    ELSE NextBlockCoin([q EXCEPT !.result = Append(q.result, coin)])

\* getCoinsByAddress up to its first await: the mempool's coins are collected
\* and the call is suspended on chain.getCoinsByAddress, or on the overlay of
\* the first of them.
GetCoinsByAddressCall(addr, slp) ==
  LET q == [op |-> "getCoinsByAddress", addr |-> addr, pc |-> "chain",
            result |-> <<>>,
            memOps |-> {o \in PoolUnspent : AddrOf(o) = addr},
            blockOps |-> {}, spentOps |-> {},
            settled |-> connecting = {}] @@ NoOverlay(slp)
  IN
  /\ QueryIdle
  /\ query' = IF Decorate(slp)
                THEN NextMemCoin([q EXCEPT !.stage = "mem",
                                           !.todo = MempoolGetCoinsByAddress(addr)])
                ELSE [q EXCEPT !.result = MempoolGetCoinsByAddress(addr)]
  /\ UNCHANGED ledgerVars

\* chain.getCoinsByAddress settles: the unspent chain coins are appended and
\* the list is returned, or the overlay of the first of them is begun.
GetCoinsByAddressReturn ==
  LET q == [query EXCEPT
              !.blockOps = {o \in ChainUnspent : AddrOf(o) = query.addr},
              !.spentOps = PoolSpent]
  IN
  /\ query.op = "getCoinsByAddress"
  /\ query.pc = "chain"
  /\ query' = IF Decorate(query.slp)
                THEN NextBlockCoin([q EXCEPT !.stage = "block",
                                             !.todo = ChainGetCoinsByAddress(query.addr)])
                ELSE [q EXCEPT
                        !.pc = "done",
                        !.result = query.result
                                   \o KeepUnspent(ChainGetCoinsByAddress(query.addr))]
  /\ UNCHANGED ledgerVars

\* A behaviour follows one query, up to its return.
Watching == query.op = "none" \/ query.pc # "done"

NextCoin ==
  \/ \E o \in Outpoints : Watching /\ AdmitTX(o) /\ UNCHANGED otherThanLedger
  \/ \E t \in 1..NTx : Watching /\ ConnectTX(t) /\ UNCHANGED otherThanLedger
  \/ \E t \in 1..NTx : Watching /\ AddBlockDone(t) /\ UNCHANGED otherThanLedger
  \/ \E o \in Outpoints :
       query = NoQuery /\ GetCoinCall(o, FALSE) /\ UNCHANGED otherThanQuery
  \/ GetCoinReturn /\ UNCHANGED otherThanQuery
  \/ \E addr \in 1..NAddr :
       query = NoQuery /\ GetCoinsByAddressCall(addr, FALSE) /\ UNCHANGED otherThanQuery
  \/ GetCoinsByAddressReturn /\ UNCHANGED otherThanQuery

(***************************************************************************)
(* The optional indexes.  The transaction index and the address index      *)
(* follow the chain each at its own pace: txHeight and addrHeight count    *)
(* the confirmed transactions each has indexed.                            *)
(***************************************************************************)
\* The addresses transaction t pertains to: its output's and its input's.
TxAddrs(t) == {AddrOf(Out(t)), AddrOf(spends[t])}

Unconfirmed == 0 - 1

Meta(t, height) == [hash |-> t, height |-> height]

\* One page of an address history, as the address index and the mempool
\* serve it: newest first when reverse is set, starting after the entry
\* `after` when one is given (0: none), and of at most `limit` entries; a
\* limit of 0 or undefined (0 here) does not cut the page.
Page(hist, limit, reverse, after) ==
  LET ord == IF reverse THEN Reverse(hist) ELSE hist
      rest == IF after = 0 THEN ord
              ELSE IF after \in Range(ord)
                THEN SubSeq(ord, IndexOf(ord, after) + 1, Len(ord))
                ELSE <<>>
  IN IF limit = 0 THEN rest ELSE Take(rest, limit)

AddrIndexHistory(addr) ==
  SelectSeq(SubSeq(chain, 1, addrHeight), LAMBDA t : addr \in TxAddrs(t))

MempoolHistory(addr) == SelectSeq(pool, LAMBDA t : addr \in TxAddrs(t))

AddrIndexGetHashesByAddress(addr, limit, reverse, after) ==
  Page(AddrIndexHistory(addr), limit, reverse, after)

MempoolGetMetaByAddress(addr, limit, reverse, after) ==
  LET page == Page(MempoolHistory(addr), limit, reverse, after)
  IN [i \in DOMAIN page |-> Meta(page[i], Unconfirmed)]

TxIndexHas(hash) == \E i \in 1..txHeight : chain[i] = hash

\* What a lookup returns for a hash it does not hold.
NullMeta == [hash |-> 0, height |-> Unconfirmed]

\* txindex.getMeta(hash), null for a hash the index does not hold.
TxIndexGetMeta(hash) ==
  IF TxIndexHas(hash) THEN Meta(hash, IndexOf(chain, hash)) ELSE NullMeta

\* mempool.getMeta(hash)
MempoolGetMeta(hash) ==
  IF hash \in Range(pool) THEN Meta(hash, Unconfirmed) ELSE NullMeta

TxIndexSync ==
  /\ txindex
  /\ txHeight < Len(chain)
  /\ txHeight' = txHeight + 1
  /\ UNCHANGED <<txindex, addrindex, addrHeight>>

AddrIndexSync ==
  /\ addrindex
  /\ addrHeight < Len(chain)
  /\ addrHeight' = addrHeight + 1
  /\ UNCHANGED <<txindex, addrindex, txHeight>>

InitIndexes ==
  /\ txindex \in BOOLEAN
  /\ addrindex \in BOOLEAN
  /\ txHeight = 0
  /\ addrHeight = 0

(***************************************************************************)
(* getMetaByAddress and getTXByAddress.                                    *)
(***************************************************************************)
\* The guard of getMetaByAddress with its two tests joined by "and".
IndexesEnabled_Either == txindex \/ addrindex

\* if (!this.txindex || !this.addrindex) return [];
IndexesEnabled == txindex /\ addrindex

Call(src, q) == [src |-> src, limit |-> q.limit, reverse |-> q.reverse, after |-> q.after]

\* unconfirmed(): the mempool's page is appended to metas.
FetchUnconfirmed(q) ==
  [q EXCEPT !.metas = q.metas \o MempoolGetMetaByAddress(q.addr, q.limit, q.reverse, q.after),
            !.calls = Append(q.calls, Call("mempool", q)),
            !.poolHist = MempoolHistory(q.addr)]

\* confirmed() up to its first await: addrindex.getHashesByAddress is called.
CallConfirmed(q, phase) ==
  [q EXCEPT !.pc = "hashes", !.phase = phase,
            !.calls = Append(q.calls, Call("addrindex", q))]

\* The budget left without the subtraction.
Remaining_Unchanged(limit, count) == limit

\* if (limit && metas.length > 0) limit -= metas.length;
Remaining(limit, count) ==
  IF limit # 0 /\ count > 0 THEN limit - count ELSE limit

\* if (!limit || limit > 0): whether the second source is fetched.
MoreWanted(limit) == limit = 0 \/ limit > 0

AfterFirst(q) ==
  [q EXCEPT !.k = Len(q.metas), !.limit = Remaining(q.limit, Len(q.metas))]

\* return metas;
Finish(q) == [q EXCEPT !.pc = "done", !.status = "ok", !.result = q.metas]

\* The loop of lines 595-599: the transaction of the next meta goes through
\* addSlpInfoToTx; after the last, metas is returned.
NextMetaTx(q) ==
  IF q.todo = <<>>
    THEN Finish(q)
    ELSE StartOverlay([q EXCEPT !.todo = Tail(q.todo)],
                      "tx", Head(q.todo), Head(q.todo).hash)

\* A meta's transaction comes back from addSlpInfoToTx.
TxDecorated(q, mtx) == NextMetaTx([q EXCEPT !.metas = Append(q.metas, mtx)])

\* The end of getMetaByAddress, from line 595: the overlay when the token
\* index exists and options.slp is set, then the return.
Overlay(q) ==
  IF Decorate(q.slp)
    THEN NextMetaTx([q EXCEPT !.todo = q.metas, !.metas = <<>>])
    ELSE Finish(q)

\* getTXByAddress: the transaction of each meta getMetaByAddress returned.
GetTXByAddress(mtxs) == [i \in DOMAIN mtxs |-> mtxs[i].hash]

\* What follows the end of confirmed().
AfterConfirmed(q) ==
  IF q.phase = 1
    THEN IF MoreWanted(AfterFirst(q).limit)
           THEN Overlay(FetchUnconfirmed(AfterFirst(q)))
           ELSE Overlay(AfterFirst(q))
    ELSE Overlay(q)

NewMetaQuery(addr, limit, reverse, after, slp) ==
  [op |-> "getMetaByAddress", addr |-> addr, limit0 |-> limit, reverse |-> reverse, after |-> after,
   enabled |-> txindex /\ addrindex,
   limit |-> limit, metas |-> <<>>, calls |-> <<>>, hashes |-> <<>>,
   pc |-> "start", phase |-> 0, k |-> 0 - 1, status |-> "pending", missing |-> 0,
   result |-> <<>>, poolHist |-> <<>>, confHist |-> <<>>] @@ NoOverlay(slp)

\* getMetaByAddress from its call to its first await, or to its return.
GetMetaByAddressCall(addr, limit, reverse, after, slp) ==
  LET q == NewMetaQuery(addr, limit, reverse, after, slp) IN
  /\ QueryIdle
  /\ query' =
       IF ~IndexesEnabled THEN Finish(q)
       ELSE IF reverse
         THEN IF MoreWanted(AfterFirst(FetchUnconfirmed(q)).limit)
                THEN CallConfirmed(AfterFirst(FetchUnconfirmed(q)), 2)
                ELSE Overlay(AfterFirst(FetchUnconfirmed(q)))
         ELSE CallConfirmed(q, 1)
  /\ UNCHANGED ledgerVars

\* addrindex.getHashesByAddress settles: the loop over the hashes begins and
\* is suspended on txindex.getMeta, or with no hash confirmed() ends.
HashesReturn ==
  LET hashes == AddrIndexGetHashesByAddress(query.addr, query.limit, query.reverse, query.after)
      q == [query EXCEPT !.confHist = AddrIndexHistory(query.addr)]
  IN
  /\ query.op = "getMetaByAddress"
  /\ query.pc = "hashes"
  /\ query' = IF hashes = <<>> THEN AfterConfirmed(q)
              ELSE [q EXCEPT !.pc = "metas", !.hashes = hashes]
  /\ UNCHANGED ledgerVars

\* confirmed() without its assertion.
Missing_Ignored(mtx) == FALSE

\* assert(mtx) fails.
Missing(mtx) == mtx = NullMeta

\* txindex.getMeta settles: assert(mtx) throws for a hash the transaction
\* index does not hold; otherwise the meta is pushed and the loop goes on.
MetaReturn ==
  LET hash == Head(query.hashes)
      q == [query EXCEPT !.metas = Append(query.metas, TxIndexGetMeta(hash)),
                         !.hashes = Tail(query.hashes)]
  IN
  /\ query.op = "getMetaByAddress"
  /\ query.pc = "metas"
  /\ query' = IF Missing(TxIndexGetMeta(hash))
                THEN [query EXCEPT !.pc = "done", !.status = "assert",
                                   !.missing = hash]
              ELSE IF q.hashes = <<>> THEN AfterConfirmed(q)
              ELSE q
  /\ UNCHANGED ledgerVars

(***************************************************************************)
(* getMeta and getTX.                                                      *)
(***************************************************************************)
\* getMeta that asks the transaction index whatever the mempool answered.
Consult_Always(meta) == txindex

\* if (!meta && this.txindex)
Consult(meta) == meta = NullMeta /\ txindex

\* getMeta from line 618: the meta goes through addSlpInfoToTx when there is
\* one, the token index exists and slp is set; then meta || null is returned.
MetaFound(q, meta) ==
  IF meta # NullMeta /\ Decorate(q.slp)
    THEN StartOverlay(q, "tx", meta, meta.hash)
    ELSE [q EXCEPT !.pc = "done", !.result = meta]

\* getMeta up to its await of txindex.getMeta, or to its end.
GetMetaCall(hash, slp) ==
  LET q == [op |-> "getMeta", txid |-> hash, pc |-> "txindex", result |-> NullMeta,
            inPool |-> hash \in Range(pool), enabled |-> txindex,
            consulted |-> FALSE, answer |-> NullMeta] @@ NoOverlay(slp)
  IN
  /\ QueryIdle
  /\ query' = IF Consult(MempoolGetMeta(hash))
                THEN q
                ELSE MetaFound(q, MempoolGetMeta(hash))
  /\ UNCHANGED ledgerVars

\* txindex.getMeta settles.
GetMetaReturn ==
  /\ query.op = "getMeta"
  /\ query.pc = "txindex"
  /\ query' = MetaFound([query EXCEPT !.consulted = TRUE,
                                      !.answer = TxIndexGetMeta(query.txid)],
                        TxIndexGetMeta(query.txid))
  /\ UNCHANGED ledgerVars

\* getTX: the transaction of the meta getMeta returned, null (0) for null.
GetTX(mtx) == IF mtx = NullMeta THEN 0 ELSE mtx.hash

Limits == 0..MaxLimit

Afters == {0} \cup (Created \cap 1..MaxAfter)

\* In the behaviours of the index queries each new transaction spends the
\* output of the one before it (the first spends a coin of the chain), so the
\* chain confirms them in the order the mempool admitted them.
ChainedInput == IF Created = {} THEN 1 ELSE Out(Cardinality(Created))

NextMeta ==
  \/ Watching /\ AdmitTX(ChainedInput) /\ UNCHANGED otherThanLedger
  \/ \E t \in 1..NTx : Watching /\ ConnectTX(t) /\ UNCHANGED otherThanLedger
  \/ \E t \in 1..NTx : Watching /\ AddBlockDone(t) /\ UNCHANGED otherThanLedger
  \/ Watching /\ TxIndexSync /\ UNCHANGED otherThanIndexes
  \/ Watching /\ AddrIndexSync /\ UNCHANGED otherThanIndexes
  \/ \E addr \in 1..NAddr, limit \in Limits, reverse \in BOOLEAN, after \in Afters :
       /\ query = NoQuery
       /\ GetMetaByAddressCall(addr, limit, reverse, after, FALSE)
       /\ UNCHANGED otherThanQuery
  \/ HashesReturn /\ UNCHANGED otherThanQuery
  \/ MetaReturn /\ UNCHANGED otherThanQuery
  \/ \E hash \in 1..NTx :
       query = NoQuery /\ GetMetaCall(hash, FALSE) /\ UNCHANGED otherThanQuery
  \/ GetMetaReturn /\ UNCHANGED otherThanQuery

(***************************************************************************)
(* The overlay calls: addSlpInfoToTx and addSlpInfoToCoin, called by the   *)
(* queries above or from outside.                                          *)
(***************************************************************************)
\* A transaction, as addSlpInfoToTx receives it; hash 0 is null.
Tx(hash) == [hash |-> hash]

\* addSlpInfoToTx or addSlpInfoToCoin returns the entity to its caller: the
\* query that awaits it goes on, a call from outside ends.
Continue(q, ent) ==
  CASE q.op = "getCoinsByAddress" -> CoinDecorated(q, ent)
    [] q.op = "getMetaByAddress"  -> TxDecorated(q, ent)
    [] OTHER                      -> [q EXCEPT !.pc = "done", !.result = ent]

\* getSlpCoinRecords settles.  addSlpInfoToCoin attaches and returns;
\* addSlpInfoToTx returns the transaction as it is when there is no record or
\* the first has no token identifier, and otherwise calls getSlpTokenRecord
\* with the identifier's bytes reversed.
GetSlpCoinRecordsReturn ==
  LET records == IF query.io THEN SlpIndexGetSlpCoinRecords(query.hash)
                 ELSE query.recs
      q == [query EXCEPT !.recs = records, !.io = FALSE]
      tokenIdHash == Reverse(records[1].tokenId)
  IN
  /\ query.pc = "slpRecords"
  /\ query' =
       IF q.kind = "coin" THEN Continue(q, AddSlpInfoToCoin(q.ent, records))
       ELSE IF Supported(records)
         THEN [q EXCEPT !.pc = "slpToken",
                        !.io = GetSlpTokenRecord(tokenIdHash).io,
                        !.tok = GetSlpTokenRecord(tokenIdHash).tok]
         ELSE Continue(q, q.ent)
  /\ UNCHANGED ledgerVars

\* getSlpTokenRecord settles: addSlpInfoToTx attaches and returns.
GetSlpTokenRecordReturn ==
  LET tokenRecord ==
        IF query.io THEN SlpIndexGetTokenRecord(Reverse(query.recs[1].tokenId))
        ELSE query.tok
  IN
  /\ query.pc = "slpToken"
  /\ query' = Continue([query EXCEPT !.tok = tokenRecord, !.io = FALSE],
                       AddSlpInfoToTx(query.ent, query.recs, tokenRecord))
  /\ UNCHANGED ledgerVars

\* addSlpInfoToTx(tx) called from outside: a null tx is returned at once.
AddSlpInfoToTxCall(hash) ==
  LET q == [[op |-> "addSlpInfoToTx", pc |-> "done", result |-> Tx(hash)]
              @@ NoOverlay(TRUE) EXCEPT !.ent = Tx(hash), !.kind = "tx"]
  IN
  /\ QueryIdle
  /\ query' = IF hash = 0 THEN q ELSE StartOverlay(q, "tx", Tx(hash), hash)
  /\ UNCHANGED ledgerVars

\* addSlpInfoToCoin(coin) called from outside: a null coin is returned at once.
AddSlpInfoToCoinCall(coin) ==
  LET q == [[op |-> "addSlpInfoToCoin", pc |-> "done", result |-> coin]
              @@ NoOverlay(TRUE) EXCEPT !.ent = coin, !.kind = "coin"]
  IN
  /\ QueryIdle
  /\ query' = IF coin = Null THEN q
              ELSE StartOverlay(q, "coin", coin, HashOfCoin(coin.op))
  /\ UNCHANGED ledgerVars

\* The token ledgers a behaviour starts with: the records of one transaction,
\* held by the mempool's ledger, by the token index, or by both while the
\* transaction is being confirmed; the token index holds something only when
\* it exists.
InitTokens ==
  /\ slpindex \in BOOLEAN
  /\ tokenAt \in IF slpindex THEN {"none", "mempool", "slpindex"}
                 ELSE {"none", "mempool"}
  /\ \E h \in Hashes, recs \in RecordLists,
        held \in {"none", "mempool", "slpindex", "both"} :
       /\ held \in {"slpindex", "both"} => slpindex
       /\ memSlp = IF held \in {"mempool", "both"} THEN h :> recs ELSE <<>>
       /\ dbSlp = IF held \in {"slpindex", "both"} THEN h :> recs ELSE <<>>

\* A ledger the node can be in: transaction 1 spent coin 1 and is confirmed,
\* transaction 2 spends its output and is in the mempool.
LedgerSettled ==
  /\ spends = [t \in 1..NTx |-> IF t = 1 THEN 1 ELSE IF t = 2 THEN Out(1) ELSE 0]
  /\ chain = <<1>>
  /\ pool = <<2>>
  /\ connecting = {}

\* Both indexes exist and have indexed the chain.
IndexesSynced ==
  /\ txindex = TRUE
  /\ addrindex = TRUE
  /\ txHeight = 1
  /\ addrHeight = 1

NextOverlay ==
  \/ \E o \in Outpoints, slp \in BOOLEAN :
       query = NoQuery /\ GetCoinCall(o, slp) /\ UNCHANGED otherThanQuery
  \/ GetCoinReturn /\ UNCHANGED otherThanQuery
  \/ \E addr \in 1..NAddr, slp \in BOOLEAN :
       query = NoQuery /\ GetCoinsByAddressCall(addr, slp) /\ UNCHANGED otherThanQuery
  \/ GetCoinsByAddressReturn /\ UNCHANGED otherThanQuery
  \/ \E hash \in 1..NTx, slp \in BOOLEAN :
       query = NoQuery /\ GetMetaCall(hash, slp) /\ UNCHANGED otherThanQuery
  \/ GetMetaReturn /\ UNCHANGED otherThanQuery
  \/ \E addr \in 1..NAddr, limit \in Limits, reverse \in BOOLEAN, after \in Afters,
        slp \in BOOLEAN :
       /\ query = NoQuery
       /\ GetMetaByAddressCall(addr, limit, reverse, after, slp)
       /\ UNCHANGED otherThanQuery
  \/ HashesReturn /\ UNCHANGED otherThanQuery
  \/ MetaReturn /\ UNCHANGED otherThanQuery
  \/ \E hash \in {0} \cup Hashes :
       query = NoQuery /\ AddSlpInfoToTxCall(hash) /\ UNCHANGED otherThanQuery
  \/ \E o \in {0} \cup Outpoints :
       /\ query = NoQuery
       /\ AddSlpInfoToCoinCall(IF o = 0 THEN Null ELSE ChainCoin(o))
       /\ UNCHANGED otherThanQuery
  \/ GetSlpCoinRecordsReturn /\ UNCHANGED otherThanQuery
  \/ GetSlpTokenRecordReturn /\ UNCHANGED otherThanQuery

(***************************************************************************)
(* rollbackSlpIndexer and startSync.  slpLog records, in order, what is    *)
(* done to the token index: [op, by], by the number of the call.           *)
(***************************************************************************)
Log(log, ops, by) == log \o [n \in 1..Len(ops) |-> [op |-> ops[n], by |-> by]]

\* rollbackSlpIndexer(height) up to its await: the flag is set and
\* slpindex._rollback(height) is begun.  Without a token index the
\* assignment to this.slpindex.syncing throws.
RollbackSlpIndexerCall(height) ==
  /\ Len(rollbacks) < MaxRollbacks
  /\ IF slpindex
       THEN /\ syncing' = TRUE
            /\ rollbacks' = Append(rollbacks,
                 [op |-> "rollbackSlpIndexer", height |-> height, pc |-> "_rollback"])
            /\ slpLog' = Log(slpLog, <<"syncing = true", "_rollback">>,
                             Len(rollbacks) + 1)
       ELSE /\ rollbacks' = Append(rollbacks,
                 [op |-> "rollbackSlpIndexer", height |-> height, pc |-> "raised"])
            /\ UNCHANGED <<syncing, slpLog>>

\* slpindex._rollback settles for call i.  When it succeeded the flag is
\* cleared and slpindex.sync() is called, unawaited; when it failed the
\* error leaves rollbackSlpIndexer at once.
RollbackSettles(i, ok) ==
  /\ i \in DOMAIN rollbacks
  /\ rollbacks[i].pc = "_rollback"
  /\ rollbacks' = [rollbacks EXCEPT ![i].pc = IF ok THEN "returned" ELSE "raised"]
  /\ syncing' = IF ok THEN FALSE ELSE syncing
  /\ slpLog' = IF ok
                 THEN Log(slpLog, <<"rolled back", "syncing = false", "sync">>, i)
                 ELSE Log(slpLog, <<"rollback failed">>, i)

\* startSync(): each index that exists is told to sync.
StartSync ==
  /\ Len(rollbacks) < MaxRollbacks
  /\ rollbacks' = Append(rollbacks, [op |-> "startSync", height |-> 0, pc |-> "returned"])
  /\ slpLog' = IF slpindex THEN Log(slpLog, <<"sync">>, Len(rollbacks) + 1)
               ELSE slpLog
  /\ UNCHANGED syncing

otherThanRollback ==
  <<reconcilerVars, errors, ledgerVars, indexVars, query, submitVars, tokenVars>>

NextRollback ==
  \/ \E height \in 0..MaxHeight :
       RollbackSlpIndexerCall(height) /\ UNCHANGED otherThanRollback
  \/ \E i \in 1..MaxRollbacks, ok \in BOOLEAN :
       RollbackSettles(i, ok) /\ UNCHANGED otherThanRollback
  \/ StartSync /\ UNCHANGED otherThanRollback

(***************************************************************************)
(* Submission: sendTX, relay and broadcast.                                *)
(***************************************************************************)
NoError == [type |-> "none", score |-> NoScore]

VerifyError(score) == [type |-> "VerifyError", score |-> score]

\* What mempool.addTX can settle with: the transaction admitted, orphaned
\* (missing inputs returned), a verification error, another failure.
Accepted == [kind |-> "accepted", err |-> NoError]

Orphaned == [kind |-> "orphan", err |-> NoError]

Threw(err) == [kind |-> "error", err |-> err]

Outcomes ==
  {Accepted, Orphaned, Threw(Fault)} \cup {Threw(VerifyError(s)) : s \in 0..MaxScore}

Returns(broadcast, reported) ==
  [result |-> "returned", err |-> NoError, broadcast |-> broadcast, reported |-> reported]

Raises(err, reported) ==
  [result |-> "raised", err |-> err, broadcast |-> FALSE, reported |-> reported]

\* sendTX that relays a softly rejected transaction whatever relayUnverified is.
SendTX_AlwaysRelay(outcome, relayUnverified) ==
  IF outcome.kind = "error"
    THEN IF outcome.err.type = "VerifyError" /\ outcome.err.score = 0
           THEN Returns(TRUE, TRUE)
           ELSE Raises(outcome.err, FALSE)
    ELSE IF outcome.kind = "orphan"
      THEN Returns(TRUE, FALSE)
      ELSE Returns(selfish, FALSE)

\* sendTX that does not look at the score of a verification error.
SendTX_AnyScore(outcome, relayUnverified) ==
  IF outcome.kind = "error"
    THEN IF outcome.err.type = "VerifyError"
           THEN IF relayUnverified
                  THEN Returns(TRUE, TRUE)
                  ELSE Raises(outcome.err, TRUE)
           ELSE Raises(outcome.err, FALSE)
    ELSE IF outcome.kind = "orphan"
      THEN Returns(TRUE, FALSE)
      ELSE Returns(selfish, FALSE)

\* sendTX that treats an orphaned transaction like an admitted one.
SendTX_OrphanAsAccepted(outcome, relayUnverified) ==
  IF outcome.kind = "error"
    THEN IF outcome.err.type = "VerifyError" /\ outcome.err.score = 0
           THEN IF relayUnverified
                  THEN Returns(TRUE, TRUE)
                  ELSE Raises(outcome.err, TRUE)
           ELSE Raises(outcome.err, FALSE)
    ELSE Returns(selfish, FALSE)

\* sendTX that announces an admitted transaction whatever the pool's mode.
SendTX_AlwaysAnnounce(outcome, relayUnverified) ==
  IF outcome.kind = "error"
    THEN IF outcome.err.type = "VerifyError" /\ outcome.err.score = 0
           THEN IF relayUnverified
                  THEN Returns(TRUE, TRUE)
                  ELSE Raises(outcome.err, TRUE)
           ELSE Raises(outcome.err, FALSE)
    ELSE Returns(TRUE, FALSE)

\* sendTX from the settling of mempool.addTX to its end: whether it returns
\* or raises, whether it called this.broadcast(tx) and this.error(err).
SendTX(outcome, relayUnverified) ==
  IF outcome.kind = "error"
    THEN IF outcome.err.type = "VerifyError" /\ outcome.err.score = 0
           THEN IF relayUnverified
                  THEN Returns(TRUE, TRUE)
                  ELSE Raises(outcome.err, TRUE)
           ELSE Raises(outcome.err, FALSE)
    ELSE IF outcome.kind = "orphan"
      THEN Returns(TRUE, FALSE)
      ELSE Returns(selfish, FALSE)

\* relay without its try/catch.
Relay_NoCatch(sent) == [result |-> sent.result, reported |-> FALSE]

\* relay after its await of sendTX: an error sendTX raised is caught and
\* reported, and relay returns.
Relay(sent) == [result |-> "returned", reported |-> sent.result = "raised"]

\* A call of sendTX(tx, relayUnverified) or of relay(tx), up to the await of
\* mempool.addTX.  relay calls sendTX(tx), relayUnverified at its default.
Submit(op, relayUnverified) ==
  /\ Len(calls) < MaxCalls
  /\ op = "relay" => relayUnverified
  /\ calls' = Append(calls,
       [op |-> op, tx |-> Len(calls) + 1, relayUnverified |-> relayUnverified,
        pc |-> "addTX", outcome |-> Accepted, sent |-> "pending", raised |-> NoError])
  /\ UNCHANGED <<selfish, broadcasts, errors>>

ReportIf(ch, cond, by, id, err) == IF cond THEN error(ch, by, id, err) ELSE ch

\* mempool.addTX settles for call i and the call runs to its end.  A
\* broadcast it issues is not awaited: it is left pending.
AddTXSettles(i, outcome) ==
  LET c == calls[i]
      sent == SendTX(outcome, c.relayUnverified)
      end == IF c.op = "relay" THEN Relay(sent)
             ELSE [result |-> sent.result, reported |-> FALSE]
  IN
  /\ i \in DOMAIN calls
  /\ c.pc = "addTX"
  /\ calls' = [calls EXCEPT ![i] =
       [c EXCEPT !.pc = end.result, !.outcome = outcome, !.sent = sent.result,
                 !.raised = IF end.result = "raised" THEN sent.err ELSE NoError]]
  /\ broadcasts' = IF sent.broadcast
                     THEN Append(broadcasts, [tx |-> c.tx, by |-> i, state |-> "pending"])
                     ELSE broadcasts
  /\ errors' = ReportIf(ReportIf(errors, sent.reported, "sendTX", i, outcome.err),
                        end.reported, "relay", i, sent.err)
  /\ UNCHANGED selfish

\* pool.broadcast settles: broadcast catches a failure and emits it as an
\* 'error' event of the node.
BroadcastSettles(b, ok) ==
  /\ b \in DOMAIN broadcasts
  /\ broadcasts[b].state = "pending"
  /\ broadcasts' = [broadcasts EXCEPT ![b].state = IF ok THEN "sent" ELSE "failed"]
  /\ errors' = ReportIf(errors, ~ok, "broadcast", broadcasts[b].by, Fault)
  /\ UNCHANGED <<selfish, calls>>

InitSubmit ==
  /\ selfish \in BOOLEAN
  /\ calls = <<>>
  /\ broadcasts = <<>>

SubmitOff ==
  /\ selfish = FALSE
  /\ calls = <<>>
  /\ broadcasts = <<>>

otherThanSubmit == <<reconcilerVars, ledgerVars, indexVars, query, tokenVars, rollbackVars>>

NextSubmit ==
  \/ \E relayUnverified \in BOOLEAN :
       Submit("sendTX", relayUnverified) /\ UNCHANGED otherThanSubmit
  \/ Submit("relay", TRUE) /\ UNCHANGED otherThanSubmit
  \/ \E i \in 1..MaxCalls, outcome \in Outcomes :
       AddTXSettles(i, outcome) /\ UNCHANGED otherThanSubmit
  \/ \E b \in 1..MaxCalls, ok \in BOOLEAN :
       BroadcastSettles(b, ok) /\ UNCHANGED otherThanSubmit

(***************************************************************************)
(* Specifications.                                                         *)
(***************************************************************************)
TokensOff ==
  /\ slpindex = FALSE
  /\ memSlp = <<>>
  /\ dbSlp = <<>>
  /\ tokenAt = "none"

RollbackIdle ==
  /\ syncing = FALSE
  /\ rollbacks = <<>>
  /\ slpLog = <<>>

IndexesOff ==
  /\ txindex = FALSE
  /\ addrindex = FALSE
  /\ txHeight = 0
  /\ addrHeight = 0

InitR ==
  /\ InitReconciler
  /\ InitLedger
  /\ SubmitOff
  /\ IndexesOff
  /\ TokensOff
  /\ RollbackIdle
  /\ query = NoQuery
  /\ errors = <<>>

SpecReconciler == InitR /\ [][NextReconciler]_vars

InitC ==
  /\ InitReconciler
  /\ InitLedger
  /\ SubmitOff
  /\ IndexesOff
  /\ TokensOff
  /\ RollbackIdle
  /\ query = NoQuery
  /\ errors = <<>>

SpecCoin == InitC /\ [][NextCoin]_vars

InitM ==
  /\ InitReconciler
  /\ InitLedger
  /\ SubmitOff
  /\ InitIndexes
  /\ TokensOff
  /\ RollbackIdle
  /\ query = NoQuery
  /\ errors = <<>>

SpecMeta == InitM /\ [][NextMeta]_vars

InitS ==
  /\ InitReconciler
  /\ InitLedger
  /\ IndexesOff
  /\ InitSubmit
  /\ TokensOff
  /\ RollbackIdle
  /\ query = NoQuery
  /\ errors = <<>>

SpecSubmit == InitS /\ [][NextSubmit]_vars

InitO ==
  /\ InitReconciler
  /\ LedgerSettled
  /\ SubmitOff
  /\ IndexesSynced
  /\ InitTokens
  /\ RollbackIdle
  /\ query = NoQuery
  /\ errors = <<>>

SpecOverlay == InitO /\ [][NextOverlay]_vars

\* The token index exists or not; it holds nothing yet.
InitB ==
  /\ InitReconciler
  /\ InitLedger
  /\ SubmitOff
  /\ IndexesOff
  /\ slpindex \in BOOLEAN
  /\ memSlp = <<>>
  /\ dbSlp = <<>>
  /\ tokenAt = "none"
  /\ RollbackIdle
  /\ query = NoQuery
  /\ errors = <<>>

SpecRollback == InitB /\ [][NextRollback]_vars

(***************************************************************************)
(* Claims about the reconciler.                                            *)
(***************************************************************************)

\* C1: reconciliation of chain events is fully serialized: no reachable state
\* has two mempool updates in progress at once, so the update for a later
\* event never begins before the update for an earlier one has completed.
C1_Serialized == Cardinality(Updating) <= 1

ErrorsOf(id) == CountWhere(errors, LAMBDA e : e.id = id)

CallsOf(id) == CountWhere(mempoolCalls, LAMBDA c : c.id = id)

EmittedOf(id) == SelectSeq(emitted, LAMBDA e : e.id = id)

\* C2: each handler isolates its own failure: every chain event has exactly
\* one mempool update begun for it (handled, never retried), whatever failed
\* before it; no handler's failure reaches the chain; a failed update is
\* reported exactly once on the error channel, a successful one never; and
\* the node-level events of a finished handler are emitted, failed or not.
C2_FailureIsolated ==
  \A id \in DOMAIN handlers :
    /\ CallsOf(id) = 1
    /\ id \notin rejected
    /\ handlers[id].result = "fail" => ErrorsOf(id) = 1
    /\ handlers[id].result # "fail" => ErrorsOf(id) = 0
    /\ handlers[id].pc = "done" =>
         EmittedOf(id) = EmitAll(<<>>, handlers[id].kind, id)

\* A failed update, and a later chain event handled to its end after it.
C2_Witness ==
  \E i, j \in DOMAIN handlers :
    /\ i < j
    /\ handlers[i].result = "fail"
    /\ handlers[j].pc = "done"
    /\ Len(EmittedOf(i)) > 0

(***************************************************************************)
(* Claims about the coin queries.                                          *)
(***************************************************************************)
GetCoinDone == query.op = "getCoin" /\ query.pc = "done"

\* C3: getCoin(O) returns null, and does not ask the chain, for an outpoint O
\* the mempool records as spent, also when the chain lists O as unspent; it
\* returns the mempool's coin, without asking the chain, for an outpoint the
\* mempool holds as a coin; only otherwise does it return the chain's answer.
C3_GetCoinSuppression ==
  GetCoinDone =>
    /\ query.spent => query.result = Null /\ ~query.asked
    /\ query.held => query.result = PoolCoin(query.o) /\ ~query.asked
    /\ ~query.spent /\ ~query.held => query.asked /\ query.result = query.answer

\* getCoin has returned null for an outpoint the mempool has spent and the
\* chain lists as unspent.
C3_Witness ==
  /\ GetCoinDone
  /\ query.spent
  /\ query.listed
  /\ query.result = Null

GetCoinsDone == query.op = "getCoinsByAddress" /\ query.pc = "done"

Ops(coins) == {coins[i].op : i \in DOMAIN coins}

IsAscending(s) == \A i, j \in DOMAIN s : i < j => s[i].op < s[j].op

\* C4: getCoinsByAddress(addr) returns the mempool's coins for the address,
\* followed by exactly those chain coins for the address that no mempool
\* transaction spends: each once, none spent in the mempool, none left out.
C4_GetCoinsByAddress ==
  GetCoinsDone =>
    LET n == Cardinality(query.memOps)
        head == SubSeq(query.result, 1, n)
        tail == SubSeq(query.result, n + 1, Len(query.result))
    IN /\ Len(query.result) >= n
       /\ \A i \in DOMAIN head : head[i].src = "mempool"
       /\ Ops(head) = query.memOps
       /\ \A i \in DOMAIN tail : tail[i].src = "chain"
       /\ Ops(tail) = query.blockOps \ query.spentOps
       /\ IsAscending(tail)

\* getCoinsByAddress has returned a mempool coin and a chain coin, and has
\* left out a chain coin that a mempool transaction spends.
C4_Witness ==
  /\ GetCoinsDone
  /\ query.memOps # {}
  /\ query.blockOps \ query.spentOps # {}
  /\ query.blockOps \cap query.spentOps # {}

(***************************************************************************)
(* Claims about getMetaByAddress.                                          *)
(***************************************************************************)
MetaReturned ==
  /\ query.op = "getMetaByAddress"
  /\ query.pc = "done"
  /\ query.status = "ok"

\* C5: with both indexes enabled and a limit L >= 1, the second fetch is
\* skipped once the limit is exhausted: when the first fetch returns L
\* entries, the other source is not queried and the result is those L entries.
C5_SecondFetchSkipped ==
  (MetaReturned /\ query.enabled /\ query.limit0 >= 1 /\ query.k = query.limit0) =>
    /\ Len(query.calls) = 1
    /\ Len(query.result) = query.limit0

IsUnconfirmed(meta) == meta.height = Unconfirmed

FirstSource(reverse) == IF reverse THEN "mempool" ELSE "addrindex"

\* C6: with both indexes enabled, the mempool's entries come first and the
\* confirmed ones follow when reverse is set, and the other way round when it
\* is not; the first source is queried with the caller's limit, and after a
\* first fetch of k < L entries (L >= 1) the second source is queried with
\* limit L - k and the same reverse and after.  With a confirmed history of
\* two, one pending transaction, limit 2 and reverse set, the result is the
\* pending transaction followed by the newer confirmed one.
C6_OrderAndBudget ==
  (MetaReturned /\ query.enabled) =>
    /\ \A i, j \in DOMAIN query.result :
         i < j => IF query.reverse
                    THEN ~(~IsUnconfirmed(query.result[i]) /\ IsUnconfirmed(query.result[j]))
                    ELSE ~(IsUnconfirmed(query.result[i]) /\ ~IsUnconfirmed(query.result[j]))
    /\ query.calls[1] = [src |-> FirstSource(query.reverse), limit |-> query.limit0,
                         reverse |-> query.reverse, after |-> query.after]
    /\ (query.limit0 >= 1 /\ query.k < query.limit0) =>
         /\ Len(query.calls) = 2
         /\ query.calls[2] = [src |-> FirstSource(~query.reverse),
                              limit |-> query.limit0 - query.k,
                              reverse |-> query.reverse, after |-> query.after]
    /\ (/\ query.reverse /\ query.limit0 = 2 /\ query.after = 0
        /\ Len(query.confHist) = 2 /\ Len(query.poolHist) = 1) =>
         GetTXByAddress(query.result) = <<query.poolHist[1], query.confHist[2]>>

\* The example of the claim: confirmed [tx1, tx2], pending [tx3], limit 2,
\* reverse set, and the call has returned [tx3, tx2].
C6_Witness ==
  /\ MetaReturned
  /\ query.enabled
  /\ query.reverse /\ query.limit0 = 2 /\ query.after = 0
  /\ Len(query.confHist) = 2 /\ Len(query.poolHist) = 1
  /\ query.poolHist[1] \notin Range(query.confHist)
  /\ query.k = 1
  /\ GetTXByAddress(query.result) = <<query.poolHist[1], query.confHist[2]>>

\* C7: when the transaction index or the address index is not enabled,
\* getMetaByAddress, and so getTXByAddress, returns an empty sequence for
\* every address and options, whatever the mempool holds, and queries
\* neither the mempool nor an index.
C7_DisabledIsEmpty ==
  (query.op = "getMetaByAddress" /\ ~query.enabled) =>
    /\ query.pc = "done"
    /\ query.status = "ok"
    /\ query.result = <<>>
    /\ GetTXByAddress(query.result) = <<>>
    /\ query.calls = <<>>

\* getMetaByAddress has returned with an index disabled while the mempool
\* holds a transaction of the address.
C7_Witness ==
  /\ query.op = "getMetaByAddress"
  /\ query.pc = "done"
  /\ ~query.enabled
  /\ MempoolHistory(query.addr) # <<>>
  /\ query.limit0 > 0

(***************************************************************************)
(* Claims about the submission path.                                       *)
(***************************************************************************)
Settled(i) == calls[i].pc # "addTX"

BroadcastsBy(i) ==
  CountWhere(broadcasts, LAMBDA b : b.by = i /\ b.tx = calls[i].tx)

Soft(i) == calls[i].outcome = Threw(VerifyError(0))

Hard(i) ==
  /\ calls[i].outcome.kind = "error"
  /\ calls[i].outcome.err.type = "VerifyError"
  /\ calls[i].outcome.err.score > 0

\* C8: when mempool.addTX rejects the transaction with a verification error
\* of score 0, sendTX with relayUnverified set attempts exactly one broadcast
\* of the transaction and returns without raising; with relayUnverified unset
\* it raises that error and attempts no broadcast.
C8_SoftRejection ==
  \A i \in DOMAIN calls :
    (calls[i].op = "sendTX" /\ Settled(i) /\ Soft(i)) =>
      IF calls[i].relayUnverified
        THEN /\ calls[i].pc = "returned"
             /\ BroadcastsBy(i) = 1
        ELSE /\ calls[i].pc = "raised"
             /\ calls[i].raised = calls[i].outcome.err
             /\ BroadcastsBy(i) = 0

\* Two soft rejections, one relayed and returned, one raised.
C8_Witness ==
  \E i, j \in DOMAIN calls :
    /\ calls[i].op = "sendTX" /\ Settled(i) /\ Soft(i)
    /\ calls[i].relayUnverified /\ BroadcastsBy(i) = 1
    /\ calls[j].op = "sendTX" /\ Settled(j) /\ Soft(j)
    /\ ~calls[j].relayUnverified /\ calls[j].pc = "raised"

\* C9: when mempool.addTX rejects the transaction with a verification error
\* of score greater than 0, sendTX raises that same error and attempts no
\* broadcast, whatever relayUnverified is.
C9_HardRejection ==
  \A i \in DOMAIN calls :
    (calls[i].op = "sendTX" /\ Settled(i) /\ Hard(i)) =>
      /\ calls[i].pc = "raised"
      /\ calls[i].raised = calls[i].outcome.err
      /\ BroadcastsBy(i) = 0

\* Hard rejections raised with relayUnverified set and with it unset.
C9_Witness ==
  \E i, j \in DOMAIN calls :
    /\ calls[i].op = "sendTX" /\ Settled(i) /\ Hard(i) /\ calls[i].relayUnverified
    /\ calls[j].op = "sendTX" /\ Settled(j) /\ Hard(j) /\ ~calls[j].relayUnverified
    /\ calls[i].pc = "raised" /\ calls[j].pc = "raised"

RelayReports(i) ==
  CountWhere(errors, LAMBDA e : e.by = "relay" /\ e.id = i /\ e.err = calls[i].outcome.err)

\* C10: relay(tx) never raises: whatever mempool.addTX settles with, relay
\* returns, and an error its sendTX raised is delivered, once, to the error
\* channel; a broadcast that fails raises nowhere and is reported there too.
C10_RelayNeverRaises ==
  /\ \A i \in DOMAIN calls :
       (calls[i].op = "relay" /\ Settled(i)) =>
         /\ calls[i].pc = "returned"
         /\ calls[i].raised = NoError
         /\ RelayReports(i) = IF calls[i].sent = "raised" THEN 1 ELSE 0
  /\ \A b \in DOMAIN broadcasts :
       broadcasts[b].state = "failed" =>
         \E n \in DOMAIN errors : errors[n].by = "broadcast" /\ errors[n].id = broadcasts[b].by

\* relay has returned after its sendTX raised a hard rejection, and another
\* relay after its sendTX raised a collaborator fault.
C10_Witness ==
  \E i, j \in DOMAIN calls :
    /\ calls[i].op = "relay" /\ Settled(i) /\ Hard(i) /\ calls[i].sent = "raised"
    /\ calls[j].op = "relay" /\ Settled(j) /\ calls[j].outcome = Threw(Fault)
    /\ calls[j].sent = "raised"
    /\ calls[i].pc = "returned" /\ calls[j].pc = "returned"

BroadcastFailed(i) ==
  \E b \in DOMAIN broadcasts : broadcasts[b].by = i /\ broadcasts[b].state = "failed"

BroadcastReports(i) ==
  CountWhere(errors, LAMBDA e : e.by = "broadcast" /\ e.id = i)

\* C11: when mempool.addTX reports the transaction as orphaned, sendTX
\* attempts exactly one broadcast of it and returns without raising, in
\* selfish mode or not; when that broadcast fails the failure is reported on
\* the error channel, and sendTX has still returned.
C11_OrphanBroadcast ==
  \A i \in DOMAIN calls :
    (calls[i].op = "sendTX" /\ Settled(i) /\ calls[i].outcome = Orphaned) =>
      /\ calls[i].pc = "returned"
      /\ calls[i].raised = NoError
      /\ BroadcastsBy(i) = 1
      /\ BroadcastReports(i) = IF BroadcastFailed(i) THEN 1 ELSE 0

\* In non-selfish mode an orphaned transaction was broadcast, the broadcast
\* failed and was reported, and sendTX has returned.
C11_Witness ==
  \E i \in DOMAIN calls :
    /\ ~selfish
    /\ calls[i].op = "sendTX" /\ Settled(i) /\ calls[i].outcome = Orphaned
    /\ calls[i].pc = "returned"
    /\ BroadcastFailed(i)
    /\ BroadcastReports(i) = 1

\* C12: when mempool.addTX admits the transaction, sendTX returns without
\* raising and issues one broadcast of it if the pool is selfish, none if it
\* is not; whatever the outcome, sendTX issues at most one broadcast.
C12_AcceptedAnnounce ==
  \A i \in DOMAIN calls :
    (calls[i].op = "sendTX" /\ Settled(i)) =>
      /\ BroadcastsBy(i) <= 1
      /\ calls[i].outcome = Accepted =>
           /\ calls[i].pc = "returned"
           /\ calls[i].raised = NoError
           /\ BroadcastsBy(i) = IF selfish THEN 1 ELSE 0

\* In selfish mode an admitted transaction was announced by sendTX itself.
C12_Witness ==
  \E i \in DOMAIN calls :
    /\ selfish
    /\ calls[i].op = "sendTX" /\ Settled(i) /\ calls[i].outcome = Accepted
    /\ calls[i].pc = "returned"
    /\ BroadcastsBy(i) = 1

(***************************************************************************)
(* Claims about the token overlay.                                         *)
(***************************************************************************)
TxOverlayDone ==
  /\ query.op = "addSlpInfoToTx"
  /\ query.pc = "done"
  /\ query.ent # Tx(0)

LacksTokenId(records) == \E i \in DOMAIN records : records[i].tokenId = NoTokenId

\* C13: addSlpInfoToTx returns the transaction unmodified when it has no
\* token records, and leaves it undecorated (no slpToken, no slp on an
\* output) when any of its records lacks a token identifier, whatever the
\* position of that record in the list.
C13_UnsupportedVariant ==
  TxOverlayDone =>
    /\ query.recs = <<>> => query.result = query.ent
    /\ LacksTokenId(query.recs) => query.result = query.ent

\* What each query returns with the slp flag unset, while the ledger and the
\* indexes do not change.
PlainCoin(o) ==
  IF GetCoinSync(o).pc = "done" THEN GetCoinSync(o).result ELSE ChainGetCoin(o)

PlainCoins(addr) ==
  MempoolGetCoinsByAddress(addr) \o KeepUnspent(ChainGetCoinsByAddress(addr))

PlainMeta(hash) ==
  IF Consult(MempoolGetMeta(hash)) THEN TxIndexGetMeta(hash) ELSE MempoolGetMeta(hash)

ConfirmedMetas(addr, limit, reverse, after) ==
  LET hashes == AddrIndexGetHashesByAddress(addr, limit, reverse, after)
  IN [i \in DOMAIN hashes |-> TxIndexGetMeta(hashes[i])]

PlainMetas(addr, limit, reverse, after) ==
  LET first == IF reverse THEN MempoolGetMetaByAddress(addr, limit, reverse, after)
               ELSE ConfirmedMetas(addr, limit, reverse, after)
      left == Remaining(limit, Len(first))
      second == IF ~MoreWanted(left) THEN <<>>
                ELSE IF reverse THEN ConfirmedMetas(addr, left, reverse, after)
                ELSE MempoolGetMetaByAddress(addr, left, reverse, after)
  IN first \o second

PlainResult ==
  CASE query.op = "getCoin" -> PlainCoin(query.o)
    [] query.op = "getCoinsByAddress" -> PlainCoins(query.addr)
    [] query.op = "getMeta" -> PlainMeta(query.txid)
    [] query.op = "getMetaByAddress" ->
         PlainMetas(query.addr, query.limit0, query.reverse, query.after)

UnifiedQueries == {"getCoin", "getCoinsByAddress", "getMeta", "getMetaByAddress"}

OverlayCalls == {"addSlpInfoToTx", "addSlpInfoToCoin"}

NoRecordOf(hash) == hash \notin DOMAIN memSlp /\ hash \notin DOMAIN dbSlp

\* C14: without a token index, getCoin, getCoinsByAddress, getMeta and
\* getMetaByAddress return with the slp flag set what they return with it
\* unset, nothing attached and no token lookup made, and do not raise; and
\* addSlpInfoToTx and addSlpInfoToCoin return the entity unmodified without a
\* token index, or when neither the mempool's token ledger nor the token
\* index has a record for the entity's transaction hash.
C14_OverlaySafety ==
  /\ (query.op \in UnifiedQueries /\ ~slpindex) =>
       /\ query.pc \notin {"slpRecords", "slpToken"}
       /\ query.lookups = 0
       /\ query.pc = "done" =>
            /\ query.result = PlainResult
            /\ query.op = "getMetaByAddress" => query.status = "ok"
  /\ (/\ query.op \in OverlayCalls
      /\ query.pc = "done"
      /\ ~slpindex \/ NoRecordOf(query.hash)) =>
       query.result = query.ent

\* Without a token index getCoinsByAddress, called with the slp flag set, has
\* returned coins of which one has token records in the mempool's ledger.
C14_Witness ==
  /\ ~slpindex
  /\ query.op = "getCoinsByAddress"
  /\ query.pc = "done"
  /\ query.slp
  /\ \E i \in DOMAIN query.result :
       /\ HashOfCoin(query.result[i].op) \in DOMAIN memSlp
       /\ memSlp[HashOfCoin(query.result[i].op)] # <<>>

(***************************************************************************)
(* Claims about the rollback of the token index.                           *)
(***************************************************************************)
InProgress(i) == rollbacks[i].pc = "_rollback"

\* The place in slpLog of what call i did, 0 when it has not done it.
At(op, i) ==
  IF \E n \in DOMAIN slpLog : slpLog[n] = [op |-> op, by |-> i]
    THEN CHOOSE n \in DOMAIN slpLog : slpLog[n] = [op |-> op, by |-> i]
    ELSE 0

\* C15: a rollback of the token index performs its four steps in order: the
\* syncing flag is set before the rollback to the target height starts, it
\* stays set for the whole time the rollback is in progress, it is cleared
\* only after the rollback has completed, and synchronization is resumed
\* only after the flag has been cleared.
C15_RollbackOrder ==
  \A i \in DOMAIN rollbacks :
    rollbacks[i].op = "rollbackSlpIndexer" =>
      /\ InProgress(i) => syncing
      /\ At("_rollback", i) # 0 => At("syncing = true", i) < At("_rollback", i)
      /\ At("syncing = false", i) # 0 =>
           /\ At("rolled back", i) # 0
           /\ At("rolled back", i) < At("syncing = false", i)
      /\ At("sync", i) # 0 =>
           /\ At("syncing = false", i) # 0
           /\ At("syncing = false", i) < At("sync", i)

\* C21: the syncing flag of the token index is set only while a rollback is
\* in progress: once every call of rollbackSlpIndexer has terminated, by
\* completing or by the rollback step raising an error, the flag is cleared.
C21_FlagClearedOnExit ==
  (\A i \in DOMAIN rollbacks : ~InProgress(i)) => ~syncing

(***************************************************************************)
(* Claims about getMeta and getTX.                                         *)
(***************************************************************************)
GetMetaDone == query.op = "getMeta" /\ query.pc = "done"

\* C16: getMeta(hash) returns the mempool's record, without consulting the
\* transaction index, when the mempool holds the transaction; otherwise it
\* returns the transaction index's record when the index is enabled; it
\* returns null when the mempool does not hold the hash and the index is
\* disabled or lacks it too.  getTX(hash) returns null exactly when getMeta
\* does.
C16_GetMetaPrecedence ==
  GetMetaDone =>
    /\ query.inPool =>
         /\ query.result = Meta(query.txid, Unconfirmed)
         /\ ~query.consulted
    /\ (~query.inPool /\ query.enabled) =>
         /\ query.consulted
         /\ query.result = query.answer
    /\ (~query.inPool /\ (~query.enabled \/ query.answer = NullMeta)) =>
         query.result = NullMeta
    /\ ~query.enabled => ~query.consulted
    /\ GetTX(query.result) = 0 <=> query.result = NullMeta

\* getMeta has returned the mempool's record of a transaction that the
\* transaction index holds too.
C16_Witness ==
  /\ GetMetaDone
  /\ query.inPool
  /\ query.enabled
  /\ TxIndexHas(query.txid)
  /\ query.result = Meta(query.txid, Unconfirmed)

MetaByAddressEnded == query.op = "getMetaByAddress" /\ query.pc = "done"

\* C18: when the address index returns a hash of which the transaction index
\* has no record, getMetaByAddress fails with an assertion error and returns
\* nothing, neither the metas collected so far nor a list with a null entry;
\* a call that returns holds no null entry.  The two indexes are synchronized
\* independently and may be at different heights.
C18_InvariantViolation ==
  MetaByAddressEnded =>
    /\ query.status \in {"ok", "assert"}
    /\ query.status = "assert" <=> query.missing # 0
    /\ query.status = "assert" => query.result = <<>>
    /\ query.status = "ok" =>
         /\ query.result = query.metas
         /\ \A i \in DOMAIN query.result : query.result[i] # NullMeta

\* The address index is ahead of the transaction index, and a call with
\* reverse set has failed on a hash the transaction index lacks after it had
\* collected the mempool's metas.
C18_Witness ==
  /\ MetaByAddressEnded
  /\ query.status = "assert"
  /\ addrHeight > txHeight
  /\ query.reverse
  /\ Len(query.metas) > 0
  /\ query.missing \in Range(query.hashes)

(***************************************************************************)
(* Claims about the node-level events.                                     *)
(***************************************************************************)
\* C17: the node-level events of a chain event ('block' then 'connect' for
\* connect; 'disconnect'; 'reorganize'; 'reset') are emitted only after the
\* mempool update for that same chain event has completed or failed, never
\* while it is still in progress, and 'block' is emitted before 'connect'.
C17_NotifiedAfterUpdate ==
  /\ \A n \in DOMAIN emitted :
       /\ emitted[n].id \in DOMAIN handlers
       /\ emitted[n].id \notin Updating
       /\ handlers[emitted[n].id].result \in {"ok", "fail"}
       /\ \E k \in DOMAIN NodeEvents(handlers[emitted[n].id].kind) :
            emitted[n].name = NodeEvents(handlers[emitted[n].id].kind)[k]
  /\ \A m, n \in DOMAIN emitted :
       (/\ emitted[m].id = emitted[n].id
        /\ emitted[m].name = "block"
        /\ emitted[n].name = "connect") => m < n

\* A connect handler whose update failed has emitted 'block' and 'connect'
\* while the update of a later chain event is in progress with nothing
\* emitted for it.
C17_Witness ==
  \E i, j \in DOMAIN handlers :
    /\ i < j
    /\ handlers[i].kind = "connect"
    /\ handlers[i].result = "fail"
    /\ Len(EmittedOf(i)) = 2
    /\ EmittedOf(i)[1].name = "block"
    /\ j \in Updating
    /\ EmittedOf(j) = <<>>

\* C19: the node re-emits the chain's events in the order the chain emitted
\* them: the node-level events of an earlier chain event all come before
\* those of a later one, also when the earlier mempool update takes longer.
C19_EmissionOrder ==
  \A m, n \in DOMAIN emitted : m < n => emitted[m].id <= emitted[n].id

(***************************************************************************)
(* Claims about getCoinsByAddress under interleaving.                      *)
(***************************************************************************)
\* C20: whatever chain connects and mempool admissions happen while
\* getCoinsByAddress is suspended on the chain lookup, the list it returns
\* never holds the same outpoint twice (as a mempool coin and as a chain
\* coin) and never holds a coin whose outpoint the mempool records as spent
\* at the moment the call returns.  The call is made when no connect is in
\* progress.
C20_NoDuplicateNoSpent ==
  (GetCoinsDone /\ query.settled) =>
    /\ \A i, j \in DOMAIN query.result :
         i # j => query.result[i].op # query.result[j].op
    /\ \A i \in DOMAIN query.result : query.result[i].op \notin query.spentOps

====
